---------------------------- MODULE Spec2Model ----------------------------
(***************************************************************************)
(* Model of document_store/mongodb_controller.py: the schema tree built by *)
(* DocumentObject / TypeObject / IterableObject and the scan loop of       *)
(* MongoDBController.set_fields.                                           *)
(*                                                                         *)
(* Python values are kept as far as the code reads them: a scalar by its   *)
(* runtime type (the code only ever calls type() on it), a dict by its     *)
(* insertion-ordered items, a list by its elements.  Python dicts are      *)
(* modelled as sequences of [k, v] pairs in insertion order.               *)
(*                                                                         *)
(* The class body of FieldBaseClass names bson.objectid.ObjectId while the *)
(* module never imports bson, so importing the module as written raises    *)
(* NameError.  The model is of the classes as they behave once that name   *)
(* resolves (the key is then one more scalar class of type_map).           *)
(*                                                                         *)
(* An exception leaves the objects as they were at the raise: a call is    *)
(* modelled by the object it leaves behind and the error it raised.        *)
(***************************************************************************)
EXTENDS Integers, Sequences, FiniteSets, TLC

VARIABLES
    \* the controller and one call of set_fields
    attrs,       \* names of the attributes set on the MongoDBController instance
    fields,      \* MongoDBController.fields: dict collection -> DocumentObject | json
    pc,          \* position of the caller / inside set_fields
    sample_size, \* argument of set_fields
    ci,          \* index of the collection the outer for loop is at
    stored,      \* the documents the current collection holds, in cursor order
    size,        \* number of documents the current collection holds
    taken,       \* number of documents the current cursor has yielded
    document,    \* the document bound by documents.next() / the inner for loop
    exc,         \* the exception that left the running call, "" while none
    instances,   \* number of MongoDBController objects constructed so far
    schema,      \* what main has written to data/schema.json, NoFile before
    \* history of the scan of the current collection
    before,      \* fields[collection] as it was when update(document) was entered
    delivered,   \* documents yielded by the current cursor, in order
    merged,      \* documents handed to DocumentObject(...) / update(...), in order
    nser,        \* number of as_json() calls made on the current collection's tree
    \* one schema node fed values one at a time (the merge engine on its own)
    root,        \* the node, NoNode before the first value
    arg,         \* the value being merged, NoValue between merges
    prev,        \* the node as it was when the merge of `arg` was entered
    step,        \* "fetch" | "apply" | "applied"
    err          \* the exception raised by the merge, "" if none

scanVars  == <<attrs, fields, pc, sample_size, ci, stored, size, taken, document,
               exc, instances, schema, before, delivered, merged, nser>>
mergeVars == <<root, arg, prev, step, err>>
vars == <<scanVars, mergeVars>>

-----------------------------------------------------------------------------
(* Python values *)

Scalar(t) == [py |-> t, items |-> <<>>, entries |-> <<>>]
List(xs)  == [py |-> "list", items |-> xs, entries |-> <<>>]
Tuple(xs) == [py |-> "tuple", items |-> xs, entries |-> <<>>]
Set(xs)   == [py |-> "set", items |-> xs, entries |-> <<>>]
Dict(es)  == [py |-> "dict", items |-> <<>>, entries |-> es]
KV(k, v)  == [k |-> k, v |-> v]

None == Scalar("NoneType")
NoValue == Scalar("")

(* dict helpers: insertion-ordered association lists *)
Keys(d) == {d[i].k : i \in 1..Len(d)}
Index(d, k) == CHOOSE i \in 1..Len(d) : d[i].k = k
Get(d, k) == d[Index(d, k)].v
\* d[k] = v : an existing key keeps its position, a new key goes last
DictSet(d, k, v) ==
    IF k \in Keys(d) THEN [d EXCEPT ![Index(d, k)] = KV(k, v)]
    ELSE Append(d, KV(k, v))

-----------------------------------------------------------------------------
(* Schema nodes.  One record shape for the three classes; `children` of the *)
(* code is `types` (TypeObject), `fields` (DocumentObject) or `items`       *)
(* (IterableObject), the other two stay empty.                              *)

TypeNode(isList, types) ==
    [cls |-> "TypeObject", isList |-> isList, types |-> types,
     fields |-> <<>>, items |-> <<>>]
DocNode(children) ==
    [cls |-> "DocumentObject", isList |-> FALSE, types |-> <<>>,
     fields |-> children, items |-> <<>>]
IterNode(children) ==
    [cls |-> "IterableObject", isList |-> FALSE, types |-> <<>>,
     fields |-> <<>>, items |-> children]

NoNode ==
    [cls |-> "", isList |-> FALSE, types |-> <<>>, fields |-> <<>>, items |-> <<>>]

\* what a call returns: the object as the call left it, and whether it raised
Ok(n)     == [node |-> n, err |-> ""]
Raised(n) == [node |-> n, err |-> "KeyError"]

\* type_map with str filed as the iterable it is
type_map_str_as_list ==
    [t \in {"dict", "collections.abc.Iterable", "list", "tuple", "set", "str", "int",
            "datetime.datetime", "NoneType", "bool", "float", "bson.objectid.ObjectId"} |->
        CASE t = "dict" -> "object"
          [] t \in {"collections.abc.Iterable", "list", "tuple", "set", "str"} -> "list"
          [] OTHER -> "single_type"]

\* FieldBaseClass.type_map: keyed by the exact runtime class
type_map ==
    [t \in {"dict", "collections.abc.Iterable", "list", "tuple", "set", "str", "int",
            "datetime.datetime", "NoneType", "bool", "float", "bson.objectid.ObjectId"} |->
        CASE t = "dict" -> "object"
          [] t \in {"collections.abc.Iterable", "list", "tuple", "set"} -> "list"
          [] OTHER -> "single_type"]

bind_to_object(object_string) ==
    IF object_string = "object" THEN "DocumentObject"
    ELSE IF object_string = "list" THEN "IterableObject"
    ELSE "TypeObject"

\* TypeObject.__init__
TypeObject_init(untyped) == TypeNode(FALSE, <<untyped.py>>)

\* TypeObject.update putting a new type in front of the recorded ones
TypeObject_update_prepend(self, untyped) ==
    LET typed == untyped.py IN
    IF \E i \in 1..Len(self.types) : self.types[i] = typed THEN self
    ELSE TypeNode(TRUE, <<typed>> \o self.types)

\* TypeObject.update
TypeObject_update(self, untyped) ==
    LET typed == untyped.py IN
    IF ~self.isList
    THEN IF self.types[1] # typed
         THEN TypeNode(TRUE, <<self.types[1], typed>>)
         ELSE self
    ELSE IF \A i \in 1..Len(self.types) : self.types[i] # typed
         THEN TypeNode(TRUE, Append(self.types, typed))
         ELSE self

RECURSIVE DocumentObject_loop(_, _, _)
RECURSIVE IterableObject_loop(_, _, _)
RECURSIVE Construct(_, _)
RECURSIVE Update(_, _)

\* the loop body adding a new category to the map instead of resetting the map
DocumentObject_loop_keep(self, items, i) ==
    IF i > Len(items) THEN Ok(self)
    ELSE
    LET key == items[i].k
        value == items[i].v
    IN  IF value.py \notin DOMAIN type_map THEN Raised(self)
        ELSE
        LET value_type == type_map[value.py]
            cats == IF key \in Keys(self.fields) THEN Get(self.fields, key) ELSE <<>>
        IN  IF value_type \in Keys(cats)
            THEN LET r == Update(Get(cats, value_type), value)
                     now == DocNode(DictSet(self.fields, key,
                                            DictSet(cats, value_type, r.node)))
                 IN  IF r.err # "" THEN Raised(now)
                     ELSE DocumentObject_loop(now, items, i + 1)
            ELSE LET r == Construct(bind_to_object(value_type), value)
                 IN  IF r.err # "" THEN Raised(self)
                     ELSE DocumentObject_loop(
                              DocNode(DictSet(self.fields, key,
                                              Append(cats, KV(value_type, r.node)))),
                              items, i + 1)

\* the body of `for key, value in document.items()` from item i on
DocumentObject_loop(self, items, i) ==
    IF i > Len(items) THEN Ok(self)
    ELSE
    LET key == items[i].k
        value == items[i].v
    IN  IF value.py \notin DOMAIN type_map THEN Raised(self)
        ELSE
        LET value_type == type_map[value.py]
            cats == IF key \in Keys(self.fields) THEN Get(self.fields, key) ELSE <<>>
        IN  IF value_type \in Keys(cats)
            THEN LET r == Update(Get(cats, value_type), value)
                     now == DocNode(DictSet(self.fields, key,
                                            DictSet(cats, value_type, r.node)))
                 IN  IF r.err # "" THEN Raised(now)
                     ELSE DocumentObject_loop(now, items, i + 1)
            ELSE LET reset == DocNode(DictSet(self.fields, key, <<>>))
                     r == Construct(bind_to_object(value_type), value)
                 IN  IF r.err # "" THEN Raised(reset)
                     ELSE DocumentObject_loop(
                              DocNode(DictSet(self.fields, key,
                                              <<KV(value_type, r.node)>>)),
                              items, i + 1)

\* DocumentObject.update rebuilding children from the document alone
DocumentObject_update_rebuild(self, doc) == DocumentObject_loop(DocNode(<<>>), doc.entries, 1)

\* DocumentObject.update
DocumentObject_update(self, doc) == DocumentObject_loop(self, doc.entries, 1)

\* the body of `for value in __iterable` from element i on
IterableObject_loop(self, iterable, i) ==
    IF i > Len(iterable) THEN Ok(self)
    ELSE
    LET value == iterable[i] IN
    IF value.py \notin DOMAIN type_map THEN Raised(self)
    ELSE
    LET value_type == bind_to_object(type_map[value.py])
        existing_item == {j \in 1..Len(self.items) : self.items[j].cls = value_type}
    IN  IF existing_item # {}
        THEN LET j == CHOOSE m \in existing_item : \A n \in existing_item : m <= n
                 r == Update(self.items[j], value)
             IN  [node |-> IterNode([self.items EXCEPT ![j] = r.node]), err |-> r.err]
        ELSE LET r == Construct(value_type, value)
             IN  IF r.err # "" THEN Raised(self)
                 ELSE IterableObject_loop(IterNode(Append(self.items, r.node)),
                                          iterable, i + 1)

\* IterableObject.update appending the first element without looking for an
\* existing child of its class
IterableObject_update_append(self, iterable) ==
    IF iterable.items = <<>> THEN Ok(self)
    ELSE
    LET value == iterable.items[1] IN
    IF value.py \notin DOMAIN type_map THEN Raised(self)
    ELSE
    LET r == Construct(bind_to_object(type_map[value.py]), value) IN
    IF r.err # "" THEN Raised(self)
    ELSE IterableObject_loop(IterNode(Append(self.items, r.node)), iterable.items, 2)

\* IterableObject.update
IterableObject_update(self, iterable) == IterableObject_loop(self, iterable.items, 1)

\* DocumentObject.__init__
DocumentObject_init(doc) == DocumentObject_update(DocNode(<<>>), doc)

\* IterableObject.__init__ storing the updated list as its own first child
IterableObject_init_nested(iterable) ==
    LET r == IterableObject_update(IterNode(<<>>), iterable)
    IN  [node |-> IterNode(<<r.node>>), err |-> r.err]

\* IterableObject.__init__
IterableObject_init(iterable) == IterableObject_update(IterNode(<<>>), iterable)

\* bind_to_object(value_type)(value): the constructor call of the bound class
Construct(cls, value) ==
    CASE cls = "DocumentObject" -> DocumentObject_init(value)
      [] cls = "IterableObject" -> IterableObject_init(value)
      [] OTHER -> Ok(TypeObject_init(value))

\* child.update(value): dispatch on the class of the node
Update(self, value) ==
    CASE self.cls = "DocumentObject" -> DocumentObject_update(self, value)
      [] self.cls = "IterableObject" -> IterableObject_update(self, value)
      [] OTHER -> Ok(TypeObject_update(self, value))

-----------------------------------------------------------------------------
(* Serialisation: as_json.  JSON values share one record shape.            *)

JStr(s)   == [j |-> "str",  s |-> s,  list |-> <<>>, dict |-> <<>>]
JList(xs) == [j |-> "list", s |-> "", list |-> xs,   dict |-> <<>>]
JDict(es) == [j |-> "dict", s |-> "", list |-> <<>>, dict |-> es]

\* str(<a class>)
str(cls) == "<class '" \o cls \o "'>"

\* TypeObject.as_json returning a list whatever children is
TypeObject_as_json_list(self) ==
    JList([i \in 1..Len(self.types) |-> JStr(str(self.types[i]))])

\* TypeObject.as_json
TypeObject_as_json(self) ==
    IF ~self.isList THEN JStr(str(self.types[1]))
    ELSE JList([i \in 1..Len(self.types) |-> JStr(str(self.types[i]))])

RECURSIVE as_json(_)
RECURSIVE DocumentObject_as_json_inner(_, _, _, _)
RECURSIVE DocumentObject_as_json_outer(_, _, _)

\* `for key_2, value_2 in value.items()` from item j on, for one key
DocumentObject_as_json_inner(out, key, value, j) ==
    IF j > Len(value) THEN out
    ELSE DocumentObject_as_json_inner(
             DictSet(out, key, JDict(<<KV(value[j].k, as_json(value[j].v))>>)),
             key, value, j + 1)

\* `for key, value in self.children.items()` from item i on
DocumentObject_as_json_outer(out, children, i) ==
    IF i > Len(children) THEN out
    ELSE DocumentObject_as_json_outer(
             DocumentObject_as_json_inner(out, children[i].k, children[i].v, 1),
             children, i + 1)

\* DocumentObject.as_json starting at the second field
DocumentObject_as_json_skip(self) == JDict(DocumentObject_as_json_outer(<<>>, self.fields, 2))

\* DocumentObject.as_json
DocumentObject_as_json(self) == JDict(DocumentObject_as_json_outer(<<>>, self.fields, 1))

\* IterableObject.as_json
IterableObject_as_json(self) ==
    JList([i \in 1..Len(self.items) |-> as_json(self.items[i])])

as_json(self) ==
    CASE self.cls = "DocumentObject" -> DocumentObject_as_json(self)
      [] self.cls = "IterableObject" -> IterableObject_as_json(self)
      [] OTHER -> TypeObject_as_json(self)

-----------------------------------------------------------------------------
(* The values fed to the merge engine.  Scalars are known by their type;    *)
(* "bytes" stands for the runtime types type_map has no key for.            *)

MaxLen == 3        \* longest array fed to an IterableObject on its own
MaxDocLen == 2     \* longest array inside a document

ScalarTypes == {"int", "str", "NoneType", "bytes"}
Scalars == {Scalar(t) : t \in ScalarTypes}
Leaves == Scalars \cup {List(<<>>), Tuple(<<>>), Set(<<>>), Dict(<<>>)}

SeqsUpTo(S, n) == UNION {[1..m -> S] : m \in 0..n}

InnerKeys == {"x", "y"}
InnerRecords ==
    {Dict(<<KV(k, v)>>) : k \in InnerKeys, v \in {Scalar("int"), Dict(<<>>)}}

\* arrays merged into an array node of its own
Elements ==
    {Scalar("int"), Scalar("str"), Scalar("bytes"), List(<<>>),
     Dict(<<KV("x", Scalar("int"))>>), Dict(<<KV("y", Scalar("int"))>>),
     Dict(<<KV("x", Dict(<<>>))>>)}
Arrays == {List(xs) : xs \in SeqsUpTo(Elements, MaxLen)}

\* documents: field "a" holds any value, field "b" a scalar
DocElements ==
    {Scalar("int"), Scalar("bytes"), Dict(<<KV("x", Scalar("int"))>>),
     Dict(<<KV("x", Dict(<<>>))>>)}
DocArrays == {List(xs) : xs \in SeqsUpTo(DocElements, MaxDocLen)}
DocValues == Leaves \cup InnerRecords \cup DocArrays
SecondScalars == Scalars
Documents ==
    {Dict(<<>>)}
    \cup {Dict(<<KV("a", v)>>) : v \in DocValues}
    \cup {Dict(<<KV("b", s)>>) : s \in SecondScalars}
    \cup {Dict(<<KV("a", v), KV("b", s)>>) : v \in Leaves, s \in SecondScalars}
    \cup {Dict(<<KV("b", s), KV("a", v)>>) : v \in Leaves, s \in SecondScalars}

Inputs == Documents \cup Arrays \cup Scalars

\* the category of a value the code can classify
Category(v) == type_map[v.py]

\* the values a caller can hand to node.update: those line 160 / 239 file under
\* the node's class, and those type_map has no key for
Feedable(n) ==
    {v \in Inputs : v.py \in DOMAIN type_map => bind_to_object(Category(v)) = n.cls}

-----------------------------------------------------------------------------
(* The merge engine on its own: one node, created from the first value as  *)
(* lines 160-168 / 239-246 do and updated with each later one.             *)

InitMerge ==
    /\ root = NoNode /\ arg = NoValue /\ prev = NoNode
    /\ step = "fetch" /\ err = ""

Feed ==
    /\ step = "fetch"
    /\ \E v \in (IF root = NoNode THEN Inputs ELSE Feedable(root)) : arg' = v
    /\ step' = "apply"
    /\ UNCHANGED <<root, prev, err>>

\* value_type = self.type_map[type(value)]; bind_to_object(value_type)(value)
Create ==
    /\ step = "apply" /\ root = NoNode
    /\ LET r == IF arg.py \notin DOMAIN type_map THEN Raised(NoNode)
                ELSE Construct(bind_to_object(type_map[arg.py]), arg)
       IN  /\ root' = IF r.err = "" THEN r.node ELSE NoNode
           /\ err' = r.err
    /\ prev' = NoNode
    /\ step' = "applied"
    /\ UNCHANGED arg

\* value_type = self.type_map[type(value)]; child_value.update(value)
Merge ==
    /\ step = "apply" /\ root # NoNode
    /\ LET r == IF arg.py \notin DOMAIN type_map THEN Raised(root)
                ELSE Update(root, arg)
       IN  /\ root' = r.node
           /\ err' = r.err
    /\ prev' = root
    /\ step' = "applied"
    /\ UNCHANGED arg

\* the caller's loop goes on to its next value
Continue ==
    /\ step = "applied" /\ err = ""
    /\ arg' = NoValue /\ prev' = NoNode
    /\ step' = "fetch"
    /\ UNCHANGED <<root, err>>

-----------------------------------------------------------------------------
(* MongoDBController: main's calls connect, set_current_database and        *)
(* set_fields, the last one statement by statement.                         *)

MaxDocs == 3       \* most documents a collection of the database holds
MaxSample == 2     \* largest sample_size passed to set_fields
MaxControllers == 2  \* most MongoDBController() calls the process makes

\* self.database.list_collection_names()
Collections == <<"c1", "c2">>

\* what find() cursors of the scanned database yield
ScanDocuments ==
    {Dict(<<KV("a", s)>>) : s \in Scalars}
    \cup {Dict(<<KV("a", Scalar("int")), KV("b", Scalar("bytes"))>>)}

\* an entry of self.fields: the DocumentObject, later replaced by its as_json()
Tree(n) == [kind |-> "DocumentObject", tree |-> n, json |-> JDict(<<>>)]
Json(j) == [kind |-> "json", tree |-> NoNode, json |-> j]

\* json.dumps(controller.fields), the text main writes
json_dumps(fs) == JDict([i \in 1..Len(fs) |-> KV(fs[i].k, fs[i].v.json)])
NoFile == JStr("")

collection == Collections[ci]

\* the cursor with the limit left out
Available_unlimited == size

\* documents = find(); if sample_size > 0: documents = documents.limit(sample_size)
Available == IF sample_size > 0 /\ sample_size < size THEN sample_size ELSE size

InitScan ==
    /\ attrs = {"connection_string"}
    /\ fields = <<>>
    /\ pc = "new"
    /\ sample_size = 0 /\ ci = 1 /\ stored = <<>> /\ size = 0 /\ taken = 0
    /\ document = NoValue /\ exc = ""
    /\ instances = 1 /\ schema = NoFile
    /\ before = NoNode /\ delivered = <<>> /\ merged = <<>> /\ nser = 0

scanLocals == <<sample_size, ci, stored, size, taken, document, before, delivered, merged,
               nser>>
processVars == <<instances, schema>>

\* MongoDBController(): Python 3 reads the class-body assignment
\* __metaclass__ = definitions.Singleton as a plain class attribute, so the
\* class is called through type.__call__: a new object, then __init__
MongoDBController ==
    /\ pc = "new" /\ instances < MaxControllers
    /\ instances' = instances + 1
    /\ attrs' = {"connection_string"}
    /\ UNCHANGED <<fields, pc, exc, schema, scanLocals>>

\* MongoDBController.connect
connect ==
    /\ pc = "new"
    /\ attrs' = attrs \cup {"client"}
    /\ pc' = "connected"
    /\ UNCHANGED <<fields, exc, scanLocals, processVars>>

\* MongoDBController.set_current_database, get_database returning
set_current_database ==
    /\ pc \in {"connected", "returned"}
    /\ fields' = <<>>
    /\ attrs' = attrs \cup {"fields", "database"}
    /\ pc' = "selected"
    /\ UNCHANGED <<exc, scanLocals, processVars>>

\* set_current_database with the reset of fields after get_database:
\* get_database raising leaves fields as it was
set_current_database_raises_late ==
    /\ pc \in {"connected", "returned"}
    /\ exc' = "PyMongoError"
    /\ pc' = "raised"
    /\ UNCHANGED <<attrs, fields, scanLocals, processVars>>

\* MongoDBController.set_current_database, get_database raising
set_current_database_raises ==
    /\ pc \in {"connected", "returned"}
    /\ fields' = <<>>
    /\ attrs' = attrs \cup {"fields"}
    /\ exc' = "PyMongoError"
    /\ pc' = "raised"
    /\ UNCHANGED <<scanLocals, processVars>>

\* the call set_fields(sample_size)
set_fields ==
    /\ pc = "selected"
    /\ \E n \in 0..MaxSample : sample_size' = n
    /\ ci' = 1
    /\ pc' = "for_collection"
    /\ UNCHANGED <<attrs, processVars, fields, exc, stored, size, taken, document, before, delivered,
                   merged, nser>>

\* line 79 with a collection left, lines 83-86
find ==
    /\ pc = "for_collection" /\ ci <= Len(Collections)
    /\ \E docs \in SeqsUpTo(ScanDocuments, MaxDocs) :
        /\ stored' = docs
        /\ size' = Len(docs)
    /\ taken' = 0 /\ delivered' = <<>> /\ merged' = <<>> /\ nser' = 0
    /\ pc' = "first"
    /\ UNCHANGED <<attrs, processVars, fields, exc, sample_size, ci, document, before>>

\* line 79 with no collection left: set_fields returns
return ==
    /\ pc = "for_collection" /\ ci > Len(Collections)
    /\ pc' = "returned"
    /\ UNCHANGED <<attrs, fields, exc, scanLocals, processVars>>

\* line 88, documents.next() yielding a document
next ==
    /\ pc = "first" /\ taken < Available
    /\ document' = stored[taken + 1]
    /\ delivered' = Append(delivered, stored[taken + 1])
    /\ taken' = taken + 1
    /\ pc' = "seed"
    /\ UNCHANGED <<attrs, processVars, fields, exc, sample_size, ci, stored, size, before, merged, nser>>

\* line 88, documents.next() on an exhausted cursor
next_StopIteration ==
    /\ pc = "first" /\ taken >= Available
    /\ exc' = "StopIteration"
    /\ pc' = "raised"
    /\ UNCHANGED <<attrs, fields, scanLocals, processVars>>

\* line 88, self.fields[collection] = DocumentObject(document)
seed ==
    /\ pc = "seed"
    /\ merged' = Append(merged, document)
    /\ LET r == DocumentObject_init(document) IN
        IF r.err = ""
        THEN /\ fields' = DictSet(fields, collection, Tree(r.node))
             /\ document' = NoValue
             /\ pc' = "for_document"
             /\ exc' = exc
        ELSE /\ exc' = r.err
             /\ pc' = "raised"
             /\ UNCHANGED <<fields, document>>
    /\ UNCHANGED <<attrs, processVars, sample_size, ci, stored, size, taken, before, delivered, nser>>

\* line 90, the cursor yielding the next document: enumerate(documents) goes on
\* with the cursor that next() has advanced, it does not start over
for_document ==
    /\ pc = "for_document" /\ taken < Available
    /\ document' = stored[taken + 1]
    /\ delivered' = Append(delivered, stored[taken + 1])
    /\ taken' = taken + 1
    /\ pc' = "update"
    /\ UNCHANGED <<attrs, processVars, fields, exc, sample_size, ci, stored, size, before, merged, nser>>

\* line 90, the cursor exhausted
for_document_end ==
    /\ pc = "for_document" /\ taken >= Available
    /\ pc' = "serialize"
    /\ UNCHANGED <<attrs, fields, exc, scanLocals, processVars>>

\* line 88 / 90, the cursor failing on the fetch
cursor_raises ==
    /\ pc \in {"first", "for_document"} /\ taken < Available
    /\ exc' = "PyMongoError"
    /\ pc' = "raised"
    /\ UNCHANGED <<attrs, fields, scanLocals, processVars>>

\* line 92 followed by a break out of the loop
update_break ==
    /\ pc = "update"
    /\ merged' = Append(merged, document)
    /\ before' = Get(fields, collection).tree
    /\ LET r == DocumentObject_update(Get(fields, collection).tree, document) IN
        /\ fields' = DictSet(fields, collection, Tree(r.node))
        /\ exc' = r.err
        /\ pc' = IF r.err = "" THEN "serialize" ELSE "raised"
    /\ UNCHANGED <<attrs, processVars, sample_size, ci, stored, size, taken, document, delivered, nser>>

\* line 92, self.fields[collection].update(document)
update ==
    /\ pc = "update"
    /\ merged' = Append(merged, document)
    /\ before' = Get(fields, collection).tree
    /\ LET r == DocumentObject_update(Get(fields, collection).tree, document) IN
        /\ fields' = DictSet(fields, collection, Tree(r.node))
        /\ exc' = r.err
        /\ pc' = IF r.err = "" THEN "processed" ELSE "raised"
    /\ UNCHANGED <<attrs, processVars, sample_size, ci, stored, size, taken, document, delivered, nser>>

\* line 93, the end of the loop body
processed ==
    /\ pc = "processed"
    /\ document' = NoValue /\ before' = NoNode
    /\ pc' = "for_document"
    /\ UNCHANGED <<attrs, processVars, fields, exc, sample_size, ci, stored, size, taken, delivered,
                   merged, nser>>

\* line 95, self.fields[collection] = self.fields[collection].as_json()
serialize ==
    /\ pc = "serialize"
    /\ fields' = DictSet(fields, collection, Json(as_json(Get(fields, collection).tree)))
    /\ nser' = nser + 1
    /\ ci' = ci + 1
    /\ pc' = "for_collection"
    /\ UNCHANGED <<attrs, processVars, exc, sample_size, stored, size, taken, document, before, delivered,
                   merged>>

\* main, lines 28-30: the schema file is written once set_fields has returned
write ==
    /\ pc = "returned"
    /\ schema' = json_dumps(fields)
    /\ pc' = "written"
    /\ UNCHANGED <<attrs, fields, exc, instances, scanLocals>>

-----------------------------------------------------------------------------
(* Specifications *)

\* the controller driven as main drives it
Init == InitScan /\ InitMerge

Next ==
    \/ MongoDBController /\ UNCHANGED mergeVars
    \/ connect /\ UNCHANGED mergeVars
    \/ set_current_database /\ UNCHANGED mergeVars
    \/ set_current_database_raises /\ UNCHANGED mergeVars
    \/ set_fields /\ UNCHANGED mergeVars
    \/ find /\ UNCHANGED mergeVars
    \/ return /\ UNCHANGED mergeVars
    \/ next /\ UNCHANGED mergeVars
    \/ next_StopIteration /\ UNCHANGED mergeVars
    \/ seed /\ UNCHANGED mergeVars
    \/ for_document /\ UNCHANGED mergeVars
    \/ for_document_end /\ UNCHANGED mergeVars
    \/ cursor_raises /\ UNCHANGED mergeVars
    \/ update /\ UNCHANGED mergeVars
    \/ processed /\ UNCHANGED mergeVars
    \/ serialize /\ UNCHANGED mergeVars
    \/ write /\ UNCHANGED mergeVars

Spec == Init /\ [][Next]_vars

\* the merge engine on its own
NextMerge ==
    \/ Feed /\ UNCHANGED scanVars
    \/ Create /\ UNCHANGED scanVars
    \/ Merge /\ UNCHANGED scanVars
    \/ Continue /\ UNCHANGED scanVars

SpecMerge == Init /\ [][NextMerge]_vars

-----------------------------------------------------------------------------
(* Vocabulary of the claims *)

\* the category map stored under a field name, empty when the name is absent
CategoryMap(n, k) == IF k \in Keys(n.fields) THEN Get(n.fields, k) ELSE <<>>

\* a merge of `arg` has returned normally
Merged == step = "applied" /\ err = ""
MergedInto(cls) == Merged /\ root.cls = cls

\* the node the merge started from; an empty node when `arg` created it
Start == IF prev = NoNode THEN [root EXCEPT !.fields = <<>>, !.items = <<>>] ELSE prev

\* the category the specification gives a value
SpecCategory(v) ==
    IF v.py = "dict" THEN "object"
    ELSE IF v.py \in {"list", "tuple", "set"} THEN "list"
    ELSE "single_type"

\* the variants of an array node that have a given class
Variants(n, cls) == {n.items[i] : i \in {j \in 1..Len(n.items) : n.items[j].cls = cls}}

\* the permutations of a sequence
Reorderings(xs) ==
    {[i \in 1..Len(xs) |-> xs[f[i]]] :
        f \in {g \in [1..Len(xs) -> 1..Len(xs)] :
                  \A i, j \in 1..Len(xs) : g[i] = g[j] => i = j}}

\* everything recorded in node `old` is still recorded in node `new`
RECURSIVE Contains(_, _)
Contains(old, new) ==
    /\ old.cls = new.cls
    /\ \A i \in 1..Len(old.types) : \E j \in 1..Len(new.types) : new.types[j] = old.types[i]
    /\ \A i \in 1..Len(old.items) :
          \E j \in 1..Len(new.items) : Contains(old.items[i], new.items[j])
    /\ \A i \in 1..Len(old.fields) :
          LET k == old.fields[i].k
              cats == old.fields[i].v
          IN  /\ k \in Keys(new.fields)
              /\ \A c \in 1..Len(cats) :
                    /\ cats[c].k \in Keys(CategoryMap(new, k))
                    /\ Contains(cats[c].v, Get(CategoryMap(new, k), cats[c].k))

-----------------------------------------------------------------------------
(* C1: when a document presents a field under a category other than one    *)
(* the field's category map already holds, the map afterwards holds both:  *)
(* the earlier category's node is kept as it was, next to the new one.     *)
C1_BothCategoriesKept ==
    (MergedInto("DocumentObject") /\ prev # NoNode) =>
        \A i \in 1..Len(arg.entries) :
            LET f == arg.entries[i].k
                c2 == Category(arg.entries[i].v)
                old == CategoryMap(prev, f)
                new == CategoryMap(root, f)
            IN  \A c1 \in Keys(old) :
                    c1 # c2 => /\ {c1, c2} \subseteq Keys(new)
                               /\ Get(new, c1) = Get(old, c1)

(* C2: a merge never removes anything: every field name, (field, category) *)
(* entry, array variant and scalar type tag of the tree before the merge   *)
(* is in the tree after it.                                                *)
C2_NeverShrinks ==
    (Merged /\ prev # NoNode) => Contains(prev, root)

\* element e has been absorbed by array node n
Absorbed(n, e) ==
    \E v \in Variants(n, bind_to_object(Category(e))) :
        /\ v.cls = "TypeObject" => \E j \in 1..Len(v.types) : v.types[j] = e.py
        /\ v.cls = "DocumentObject" => Keys(e.entries) \subseteq Keys(v.fields)

(* C3: after an array has been merged into (or has created) an array node, *)
(* every element of the array, at every position, has been absorbed by the *)
(* variant of its category.                                                *)
C3_EveryElementAbsorbed ==
    MergedInto("IterableObject") =>
        \A i \in 1..Len(arg.items) : Absorbed(root, arg.items[i])

(* C4: merging the document just merged once more leaves the serialized    *)
(* schema as it is.                                                        *)
C4_Idempotent ==
    MergedInto("DocumentObject") =>
        LET again == DocumentObject_update(root, arg)
        IN  again.err = "" /\ as_json(again.node) = as_json(root)

\* the Scalar node `new` is `old` after a value of type t: t goes last when it
\* is new, nothing moves when it is not, and as_json lists the tags in that order
ScalarStep(old, t, new) ==
    LET was == old.types
        now == IF \E j \in 1..Len(was) : was[j] = t THEN was ELSE Append(was, t)
    IN  /\ new.types = now
        /\ as_json(new) = IF Len(now) = 1 THEN JStr(str(now[1]))
                          ELSE JList([j \in 1..Len(now) |-> JStr(str(now[j]))])

(* C5: scalar type tags are kept in first-seen order: a scalar of a type   *)
(* not yet recorded for a field is appended after the recorded ones (t1    *)
(* then t2 serializes as [t1, t2], whichever of the two came first), a     *)
(* recorded type changes nothing, and NoneType is a type like any other.   *)
C5_FirstSeenOrder ==
    /\ (MergedInto("TypeObject") /\ prev # NoNode) => ScalarStep(prev, arg.py, root)
    /\ (MergedInto("DocumentObject") /\ prev # NoNode) =>
          \A i \in 1..Len(arg.entries) :
              LET f == arg.entries[i].k
                  v == arg.entries[i].v
              IN  (SpecCategory(v) = "single_type"
                      /\ "single_type" \in Keys(CategoryMap(prev, f))) =>
                  /\ "single_type" \in Keys(CategoryMap(root, f))
                  /\ ScalarStep(Get(CategoryMap(prev, f), "single_type"), v.py,
                                Get(CategoryMap(root, f), "single_type"))

C5_Witness ==
    /\ MergedInto("DocumentObject")
    /\ arg = Dict(<<KV("a", Scalar("int"))>>)
    /\ CategoryMap(prev, "a") = <<KV("single_type", TypeNode(FALSE, <<"NoneType">>))>>
    /\ as_json(root) =
          JDict(<<KV("a", JDict(<<KV("single_type",
              JList(<<JStr("<class 'NoneType'>"), JStr("<class 'int'>")>>))>>))>>)

(* C6: the order of the elements of an array does not matter: merging any  *)
(* permutation of the array into the same array node (or creating the node *)
(* from it) gives the same set of variant classes and the same set of      *)
(* scalar type tags.                                                       *)
C6_ElementOrderIrrelevant ==
    MergedInto("IterableObject") =>
        \A xs \in Reorderings(arg.items) :
            LET other == IterableObject_update(Start, List(xs)).node
                Classes(n) == {n.items[i].cls : i \in 1..Len(n.items)}
                Tags(n) == UNION {{v.types[j] : j \in 1..Len(v.types)} :
                                     v \in Variants(n, "TypeObject")}
            IN  Classes(other) = Classes(root) /\ Tags(other) = Tags(root)

(* C7: no merge fails: whatever value arrives, it is classified and the    *)
(* node is created or updated without an exception.                        *)
C7_NoFailure ==
    step = "applied" => err = ""

(* C8: a text value is filed under single_type and never under list, as a  *)
(* field of a record and as an element of an array; a dict is filed under  *)
(* object and a list, tuple or set under list.                             *)
C8_Classification ==
    /\ MergedInto("DocumentObject") =>
          \A i \in 1..Len(arg.entries) :
              LET f == arg.entries[i].k
                  v == arg.entries[i].v
              IN  /\ SpecCategory(v) \in Keys(CategoryMap(root, f))
                  /\ Get(CategoryMap(root, f), SpecCategory(v)).cls =
                        bind_to_object(SpecCategory(v))
                  /\ v.py = "str" => "list" \notin Keys(CategoryMap(root, f))
    /\ (MergedInto("IterableObject") /\ arg.items # <<>>) =>
          LET e == arg.items[1]
          IN  /\ Variants(root, bind_to_object(SpecCategory(e))) # {}
              /\ e.py = "str" =>
                    \E v \in Variants(root, "TypeObject") :
                        \E j \in 1..Len(v.types) : v.types[j] = "str"
              /\ (\A i \in 1..Len(arg.items) : SpecCategory(arg.items[i]) # "list") =>
                    Variants(root, "IterableObject") = Variants(Start, "IterableObject")

C8_Witness ==
    /\ MergedInto("DocumentObject")
    /\ arg = Dict(<<KV("a", Scalar("str")), KV("b", Scalar("int"))>>)
    /\ Keys(CategoryMap(prev, "a")) = {"list"}
    /\ Keys(CategoryMap(root, "a")) = {"single_type"}

\* record node `new` is `old` after document d: the field names are united and
\* what is stored under a name d does not have is untouched
RecordUnion(old, d, new) ==
    /\ Keys(new.fields) = Keys(old.fields) \cup Keys(d.entries)
    /\ \A k \in Keys(old.fields) \ Keys(d.entries) :
          Get(new.fields, k) = Get(old.fields, k)

(* C9: a record update unites the field names and leaves alone what is     *)
(* stored under the names the document does not have, at the top of the    *)
(* tree and in a nested record.                                            *)
C9_RecordUnion ==
    MergedInto("DocumentObject") =>
        /\ RecordUnion(Start, arg, root)
        /\ \A i \in 1..Len(arg.entries) :
              LET f == arg.entries[i].k
                  v == arg.entries[i].v
              IN  (v.py = "dict" /\ "object" \in Keys(CategoryMap(Start, f))) =>
                  /\ "object" \in Keys(CategoryMap(root, f))
                  /\ RecordUnion(Get(CategoryMap(Start, f), "object"), v,
                                 Get(CategoryMap(root, f), "object"))

C9_Witness ==
    /\ MergedInto("DocumentObject")
    /\ arg = Dict(<<KV("a", Dict(<<KV("y", Scalar("int"))>>))>>)
    /\ "b" \in Keys(prev.fields)
    /\ "object" \in Keys(CategoryMap(prev, "a"))
    /\ Keys(Get(CategoryMap(prev, "a"), "object").fields) = {"x"}
    /\ Keys(Get(CategoryMap(root, "a"), "object").fields) = {"x", "y"}

\* the tree set_fields builds from the documents of one cursor: line 88 on the
\* first, line 92 on each later one, in order
RECURSIVE ScanFrom(_, _, _)
ScanFrom(tree, docs, i) ==
    IF i > Len(docs) THEN tree
    ELSE ScanFrom(DocumentObject_update(tree, docs[i]).node, docs, i + 1)
Scan(docs) == ScanFrom(DocumentObject_init(docs[1]).node, docs, 2)

(* C10: the scan of a collection: every document the cursor yields is      *)
(* handed to the tree before the next one is fetched, the first to the     *)
(* constructor and the others to update, once each and in the order of     *)
(* delivery; as_json is called once, when the cursor is exhausted and all  *)
(* of them are merged, and fields[collection] then holds what it returned. *)
C10_ScanLifecycle ==
    /\ nser <= 1
    /\ Len(delivered) = taken
    /\ Len(merged) <= Len(delivered) /\ Len(delivered) <= Len(merged) + 1
    /\ merged = SubSeq(delivered, 1, Len(merged))
    /\ pc \in {"for_document", "processed", "serialize"} => merged = delivered
    /\ pc \in {"for_document", "update", "processed", "serialize"} =>
          /\ nser = 0
          /\ collection \in Keys(fields)
          /\ Get(fields, collection) = Tree(Scan(merged))
    /\ pc = "serialize" => taken = Available
    /\ (pc \in {"for_collection", "returned"} /\ ci > 1) =>
          /\ nser = 1
          /\ merged = delivered /\ Len(delivered) = Available
          /\ Get(fields, Collections[ci - 1]) = Json(as_json(Scan(delivered)))

C10_Witness ==
    /\ pc = "for_collection" /\ ci = 2 /\ nser = 1
    /\ delivered = <<Dict(<<KV("a", Scalar("str"))>>), Dict(<<KV("a", Scalar("int"))>>),
                     Dict(<<KV("a", Scalar("str"))>>)>>
    /\ Get(fields, "c1") =
          Json(JDict(<<KV("a", JDict(<<KV("single_type",
              JList(<<JStr("<class 'str'>"), JStr("<class 'int'>")>>))>>))>>))

-----------------------------------------------------------------------------
(* C11: set_fields completes normally whatever finite sequence of          *)
(* documents a collection delivers, the empty one included: no call ends   *)
(* in an exception unless a collaborator failed, an empty collection gets  *)
(* an empty schema, and when set_fields has returned every collection of   *)
(* the database has its serialized entry in fields.                        *)
C11_CompletesNormally ==
    /\ pc = "raised" => exc = "PyMongoError"
    /\ (pc = "for_collection" /\ ci > 1 /\ size = 0) =>
          Get(fields, Collections[ci - 1]) = Json(JDict(<<>>))
    /\ pc = "returned" =>
          \A i \in 1..Len(Collections) :
              /\ Collections[i] \in Keys(fields)
              /\ Get(fields, Collections[i]).kind = "json"

-----------------------------------------------------------------------------
(* C12: when the cursor of a collection fails after it has yielded         *)
(* documents, the failure leaves set_fields, fields has no entry for that  *)
(* collection afterwards (neither the partly merged tree nor its           *)
(* serialization), and main writes no file.                                *)
C12_PartialTreeDiscarded ==
    (pc = "raised" /\ exc = "PyMongoError" /\ ci <= Len(Collections)
        /\ delivered # <<>>) =>
        /\ collection \notin Keys(fields)
        /\ schema = NoFile

-----------------------------------------------------------------------------
(* C13: of a collection holding N documents, set_fields(sample_size)       *)
(* hands to the tree (constructor plus updates) the first N documents of   *)
(* the cursor when sample_size is 0 and the first min(N, sample_size) when *)
(* sample_size > 0: never more, never others, and exactly those once the   *)
(* collection is done.                                                     *)
Cap == IF sample_size = 0 THEN Len(stored)
       ELSE IF Len(stored) < sample_size THEN Len(stored) ELSE sample_size

C13_SampleCap ==
    /\ pc \in {"first", "seed", "for_document", "update", "processed", "serialize"} =>
          /\ Len(merged) <= Cap
          /\ merged = SubSeq(stored, 1, Len(merged))
    /\ (pc = "serialize" \/ (pc \in {"for_collection", "returned"} /\ ci > 1)) =>
          merged = SubSeq(stored, 1, Cap)

C13_Witness ==
    /\ pc = "for_collection" /\ ci = 2
    /\ sample_size = 2 /\ Len(stored) = 3
    /\ stored[3] # stored[1] /\ stored[2] # stored[1]
    /\ merged = <<stored[1], stored[2]>>

-----------------------------------------------------------------------------
\* the nodes of a tree, the root included
RECURSIVE Nodes(_)
Nodes(n) ==
    {n}
    \cup UNION {Nodes(n.items[i]) : i \in 1..Len(n.items)}
    \cup UNION {UNION {Nodes(n.fields[i].v[j].v) : j \in 1..Len(n.fields[i].v)} :
                    i \in 1..Len(n.fields)}

(* C14: in every reachable state every IterableObject of the tree holds at *)
(* most one child of each class, that is at most one scalar, one record    *)
(* and one array variant, whatever was merged and whether or not the last  *)
(* merge raised.                                                           *)
C14_OneVariantPerCategory ==
    \A n \in Nodes(root) :
        n.cls = "IterableObject" =>
            \A i, j \in 1..Len(n.items) : n.items[i].cls = n.items[j].cls => i = j

C14_Witness ==
    /\ Merged /\ prev # NoNode
    /\ root.cls = "IterableObject" /\ Len(root.items) = 3
    /\ Len(prev.items) = 2
    /\ Len(arg.items) = 3
    /\ \E i \in 1..3 : bind_to_object(Category(arg.items[i])) = prev.items[1].cls

-----------------------------------------------------------------------------
\* the type tags a TypeObject holds
Tags(n) == {n.types[i] : i \in 1..Len(n.types)}

(* C15: a TypeObject never holds a type twice; a scalar merged into it     *)
(* leaves it holding the types it held plus the scalar's (the scalar's     *)
(* alone when the scalar created it); and as_json returns one type name    *)
(* exactly when the node holds one distinct type, otherwise the list of    *)
(* the names of all the distinct types it holds.                           *)
C15_DistinctTypes ==
    /\ \A n \in Nodes(root) :
          n.cls = "TypeObject" =>
              /\ \A i, j \in 1..Len(n.types) : n.types[i] = n.types[j] => i = j
              /\ IF Cardinality(Tags(n)) = 1
                 THEN \E t \in Tags(n) : as_json(n) = JStr(str(t))
                 ELSE /\ as_json(n).j = "list"
                      /\ Len(as_json(n).list) = Cardinality(Tags(n))
                      /\ {as_json(n).list[i] : i \in 1..Len(as_json(n).list)}
                            = {JStr(str(t)) : t \in Tags(n)}
    /\ MergedInto("TypeObject") =>
          Tags(root) = (IF prev = NoNode THEN {} ELSE Tags(prev)) \cup {arg.py}

C15_Witness ==
    /\ MergedInto("TypeObject") /\ prev # NoNode
    /\ Cardinality(Tags(prev)) = 3
    /\ arg.py \in Tags(prev)
    /\ as_json(root) = JList(<<JStr("<class 'str'>"), JStr("<class 'NoneType'>"),
                               JStr("<class 'int'>")>>)

-----------------------------------------------------------------------------
-----------------------------------------------------------------------------
\* the largest member of a set of naturals, 0 for the empty set
Largest(S) == IF S = {} THEN 0 ELSE CHOOSE m \in S : \A n \in S : n <= m

\* the number of nested DocumentObject / IterableObject nodes on the longest
\* path of a tree
RECURSIVE NodeDepth(_)
NodeDepth(n) ==
    IF n.cls \notin {"DocumentObject", "IterableObject"} THEN 0
    ELSE 1 + Largest(
             {NodeDepth(n.items[i]) : i \in 1..Len(n.items)}
             \cup UNION {{NodeDepth(n.fields[i].v[j].v) : j \in 1..Len(n.fields[i].v)} :
                             i \in 1..Len(n.fields)})

\* the number of nested dicts / arrays on the longest path of a value
RECURSIVE ValueDepth(_)
ValueDepth(v) ==
    IF v.py \notin {"dict", "list", "tuple", "set"} THEN 0
    ELSE 1 + Largest(
             {ValueDepth(v.items[i]) : i \in 1..Len(v.items)}
             \cup {ValueDepth(v.entries[i].v) : i \in 1..Len(v.entries)})

(* C17: the tree never gets deeper than the deepest value merged into it:  *)
(* a node created from a value is no deeper than the value, and a merge    *)
(* leaves the node no deeper than the deeper of the node before it and the *)
(* merged value, whether the merge returned or raised.  Hence, merge after *)
(* merge, the depth stays at most the largest depth among the values       *)
(* merged so far.                                                          *)
C17_DepthBounded ==
    /\ step = "applied" =>
          NodeDepth(root) <= Largest({NodeDepth(prev), ValueDepth(arg)})
    /\ step # "applied" => prev = NoNode

C17_Witness ==
    /\ Merged /\ prev # NoNode
    /\ NodeDepth(prev) = 2
    /\ ValueDepth(arg) = 4
    /\ NodeDepth(root) = 4

-----------------------------------------------------------------------------
-----------------------------------------------------------------------------
(* C19: every call of set_current_database, made on a new connection or    *)
(* after a scan has filled fields, leaves fields empty, whether            *)
(* get_database returns or raises; so while a database is selected and not *)
(* yet scanned, fields shows nothing of an earlier one.                    *)
C19_CleanSession ==
    /\ [](pc = "selected" => fields = <<>>)
    /\ [][(pc \in {"connected", "returned"} /\ pc' \in {"selected", "raised"})
             => fields' = <<>>]_vars

C19_Witness ==
    /\ pc = "raised" /\ exc = "PyMongoError"
    /\ ci > Len(Collections) /\ merged # <<>>
    /\ "database" \in attrs
    /\ fields = <<>>

-----------------------------------------------------------------------------
(* C20: the controller is a singleton: a call of MongoDBController() after *)
(* the first returns the first instance, so the process never holds more   *)
(* than one controller object.                                             *)
C20_Singleton == instances <= 1

=============================================================================
